---- MODULE Spec2Model ----
(***************************************************************************)
(* Bangalore house price prediction: the FastAPI service of                *)
(* src/server/main.py and the Streamlit client of src/frontend/app_ui.py.  *)
(*                                                                         *)
(* Numbers.  The int fields (bath, balcony, bhk) are integers.  The float  *)
(* fields (total_sqft_int, price_per_sqft) and every entry of a feature    *)
(* vector are fixed-point: the integer n stands for the real n/Resolution. *)
(* float(i) of an int i is therefore i * Resolution.  A prediction is in   *)
(* thousandths of a lakh before rounding and in hundredths after.          *)
(***************************************************************************)
EXTENDS Integers, Sequences, FiniteSets, TLC

VARIABLES artifact, phase, MODEL, FEATURE_ORDER,
          form, issues, postResp, getResp, metaResp

vars == <<artifact, phase, MODEL, FEATURE_ORDER,
          form, issues, postResp, getResp, metaResp>>

server == <<artifact, phase, MODEL, FEATURE_ORDER>>

(***************************************************************************)
(* Bound of the model: fixed-point steps per unit of a float.              *)
(***************************************************************************)
Resolution == 2

(***************************************************************************)
(* Program constants of the server (Field / Query / Path constraints, the  *)
(* cross-field rules and the query defaults).                              *)
(***************************************************************************)
MinBath == 1
MaxBath == 12
MinBalcony == 0
MaxBalcony == 6
MinSqftExcl == 200
MinBhk == 1
MaxBhk == 12
MinPpsExcl == 0
BathSlack == 2
MinSqftPerBhk == 350
DefaultBath == 2
DefaultBalcony == 1
DefaultSqft == 1000
DefaultPps == 6000

FieldNames == {"bath", "balcony", "total_sqft_int", "bhk", "price_per_sqft"}
QueryNames == {"bath", "balcony", "total_sqft_int", "price_per_sqft"}

BuiltinOrder == <<"bath", "balcony", "total_sqft_int", "bhk", "price_per_sqft">>

\* float(i) for an int i
Float(i) == i * Resolution

\* a / b < c for reals a/Resolution, b > 0 an int, c an int
QuotientBelow(a, b, c) == a < c * b * Resolution

(***************************************************************************)
(* The artifact file bangalore_model.pkl as found at startup.              *)
(***************************************************************************)
Linear5 == [type |-> "LinearRegression", n_features |-> 5,
            coef |-> <<3, 1, 7, 2, 1>>, intercept |-> 4]
Linear4 == [type |-> "Ridge", n_features |-> 4,
            coef |-> <<5, 2, 1, 3>>, intercept |-> 1]
Unloaded == [type |-> "", n_features |-> 0, coef |-> <<>>, intercept |-> 0]

Models == {Linear5, Linear4}

Orders == { <<"bhk", "total_sqft_int", "bath", "price_per_sqft", "balcony">>,
            <<"total_sqft_int", "bhk", "bhk", "price_per_sqft">>,
            <<"bath", "balcony", "total_sqft", "bhk", "price_per_sqft">> }

Payloads == {[model |-> m] : m \in Models}
            \cup {[feature_order |-> o] : o \in Orders}
            \cup {[model |-> m, feature_order |-> o] : m \in Models, o \in Orders}

Artifacts == {[file |-> "absent"], [file |-> "corrupt"]}
             \cup {[file |-> "pickle", payload |-> p] : p \in Payloads}

(***************************************************************************)
(* MODEL.predict(x)[0]: the opaque predictor.  A fitted linear model       *)
(* raises when the row has another number of columns than it was trained   *)
(* on, and otherwise returns intercept + coef . x (thousandths of a lakh). *)
(***************************************************************************)
RECURSIVE Dot(_, _)
Dot(c, x) == IF c = <<>> THEN 0 ELSE Head(c) * Head(x) + Dot(Tail(c), Tail(x))

MODEL_predict(m, x) ==
    IF Len(x) # m.n_features
    THEN [raised |-> TRUE, error |-> "shape mismatch"]
    ELSE [raised |-> FALSE, y |-> m.intercept + Dot(m.coef, x) \div Resolution]

\* round(float(y_pred), 2): thousandths to hundredths, ties to even
round2(y) ==
    LET q == y \div 10
        r == y % 10
    IN  IF r < 5 THEN q
        ELSE IF r > 5 THEN q + 1
        ELSE IF q % 2 = 0 THEN q ELSE q + 1

(***************************************************************************)
(* PredictRequest: the Field constraints, then (mode="after", so only when *)
(* every field passed) the model validator logical_rules.                  *)
(***************************************************************************)
FieldErrors(f) ==
    {n \in FieldNames :
        \/ n = "bath" /\ ~(f.bath >= MinBath /\ f.bath <= MaxBath)
        \/ n = "balcony" /\ ~(f.balcony >= MinBalcony /\ f.balcony <= MaxBalcony)
        \/ n = "total_sqft_int" /\ ~(f.total_sqft_int > MinSqftExcl * Resolution)
        \/ n = "bhk" /\ ~(f.bhk >= MinBhk /\ f.bhk <= MaxBhk)
        \/ n = "price_per_sqft" /\ ~(f.price_per_sqft > MinPpsExcl * Resolution)}

\* mutant: both rules exclusive at the boundary
logical_rules_exclusive(f) ==
    IF f.bath >= f.bhk + BathSlack
    THEN [raised |-> TRUE, error |-> "Invalid: bath should typically be <= (bhk + 2)."]
    ELSE IF f.total_sqft_int <= MinSqftPerBhk * f.bhk * Resolution
    THEN [raised |-> TRUE, error |-> "Invalid: sqft per BHK must be >= 350 (data cleaning rule)."]
    ELSE [raised |-> FALSE]

logical_rules(f) ==
    IF f.bath > f.bhk + BathSlack
    THEN [raised |-> TRUE, error |-> "Invalid: bath should typically be <= (bhk + 2)."]
    ELSE IF QuotientBelow(f.total_sqft_int, f.bhk, MinSqftPerBhk)
    THEN [raised |-> TRUE, error |-> "Invalid: sqft per BHK must be >= 350 (data cleaning rule)."]
    ELSE [raised |-> FALSE]

PredictRequest(f) ==
    IF FieldErrors(f) # {}
    THEN [raised |-> TRUE, errors |-> FieldErrors(f)]
    ELSE IF logical_rules(f).raised
    THEN [raised |-> TRUE, errors |-> {logical_rules(f).error}]
    ELSE [raised |-> FALSE, req |-> f]

(***************************************************************************)
(* make_feature_vector: feature_map[name] for each name of FEATURE_ORDER,  *)
(* a KeyError for a name that is no key of feature_map.                    *)
(***************************************************************************)
feature_map(req) ==
    [n \in FieldNames |->
        CASE n = "bath" -> req.bath
          [] n = "balcony" -> req.balcony
          [] n = "total_sqft_int" -> req.total_sqft_int
          [] n = "bhk" -> req.bhk
          [] n = "price_per_sqft" -> req.price_per_sqft]

\* float(v): an int is converted, a float is kept
FloatOfField(n, v) == IF n \in {"total_sqft_int", "price_per_sqft"} THEN v ELSE Float(v)

\* mutant: the training order written into the code, whatever FEATURE_ORDER is
make_feature_vector_hardcoded(req) ==
    [raised |-> FALSE,
     x |-> [i \in 1..Len(BuiltinOrder) |->
               FloatOfField(BuiltinOrder[i], feature_map(req)[BuiltinOrder[i]])]]

\* mutant: feature_map.get(name, 0) instead of feature_map[name]
make_feature_vector_defaulting(req) ==
    [raised |-> FALSE,
     x |-> [i \in 1..Len(FEATURE_ORDER) |->
               IF FEATURE_ORDER[i] \in DOMAIN feature_map(req)
               THEN FloatOfField(FEATURE_ORDER[i], feature_map(req)[FEATURE_ORDER[i]])
               ELSE 0]]

make_feature_vector(req) ==
    IF \E i \in 1..Len(FEATURE_ORDER) : FEATURE_ORDER[i] \notin DOMAIN feature_map(req)
    THEN [raised |-> TRUE, error |-> "KeyError"]
    ELSE [raised |-> FALSE,
          x |-> [i \in 1..Len(FEATURE_ORDER) |->
                    FloatOfField(FEATURE_ORDER[i], feature_map(req)[FEATURE_ORDER[i]])]]

(***************************************************************************)
(* Responses.  Besides the HTTP status and body, a response of a predict   *)
(* endpoint records what the handler did: whether a PredictRequest was     *)
(* built (validated), how often MODEL.predict was invoked (calls) and the  *)
(* vector handed to it.                                                    *)
(***************************************************************************)
NoResp == [status |-> 0]

Reply(status, body, validated, calls, vector) ==
    [status |-> status, body |-> body,
     validated |-> validated, calls |-> calls, vector |-> vector]

\* mutant: no try / except around the prediction
predict_uncaught(req) ==
    LET v == make_feature_vector(req)
        p == MODEL_predict(MODEL, v.x)
    IN  IF v.raised
        THEN Reply(500, [detail |-> "Internal Server Error"], TRUE, 0, <<>>)
        ELSE IF p.raised
        THEN Reply(500, [detail |-> "Internal Server Error"], TRUE, 1, v.x)
        ELSE Reply(200, [predicted_price_lakhs |-> round2(p.y),
                         feature_order |-> FEATURE_ORDER,
                         features_used |-> v.x], TRUE, 1, v.x)

\* POST /predict handler body, lines 92-102
predict(req) ==
    LET v == make_feature_vector(req)
        p == MODEL_predict(MODEL, v.x)
    IN  IF v.raised
        THEN Reply(400, [detail |-> "Prediction failed: KeyError"], TRUE, 0, <<>>)
        ELSE IF p.raised
        THEN Reply(400, [detail |-> "Prediction failed: shape mismatch"], TRUE, 1, v.x)
        ELSE Reply(200, [predicted_price_lakhs |-> round2(p.y),
                         feature_order |-> FEATURE_ORDER,
                         features_used |-> v.x], TRUE, 1, v.x)

\* POST /predict as routed: FastAPI builds req: PredictRequest from the JSON
\* body and answers 422 itself when that raises
post_predict(body) ==
    LET r == PredictRequest(body)
    IN  IF r.raised
        THEN Reply(422, [detail |-> r.errors], FALSE, 0, <<>>)
        ELSE predict(r.req)

\* The Path / Query constraints of predict_via_query, lines 112-116,
\* checked by FastAPI on the parameters that are present
ParamErrors(bhk, query) ==
    {n \in DOMAIN query \cup {"bhk"} :
        \/ n = "bhk" /\ ~(bhk >= 1 /\ bhk <= 12)
        \/ n = "bath" /\ ~(query[n] >= 1 /\ query[n] <= 12)
        \/ n = "balcony" /\ ~(query[n] >= 0 /\ query[n] <= 6)
        \/ n = "total_sqft_int" /\ ~(query[n] > 200 * Resolution)
        \/ n = "price_per_sqft" /\ ~(query[n] > 0)}

QueryValue(query, n, default) == IF n \in DOMAIN query THEN query[n] ELSE default

\* mutant: bath and balcony passed to PredictRequest in each other's place
predict_via_query_swapped(bhk, query) ==
    LET r == PredictRequest(
                [bath |-> QueryValue(query, "balcony", DefaultBalcony),
                 balcony |-> QueryValue(query, "bath", DefaultBath),
                 total_sqft_int |-> QueryValue(query, "total_sqft_int", DefaultSqft * Resolution),
                 bhk |-> bhk,
                 price_per_sqft |-> QueryValue(query, "price_per_sqft", DefaultPps * Resolution)])
    IN  IF ParamErrors(bhk, query) # {}
        THEN Reply(422, [detail |-> ParamErrors(bhk, query)], FALSE, 0, <<>>)
        ELSE IF r.raised
        THEN Reply(500, [detail |-> "Internal Server Error"], FALSE, 0, <<>>)
        ELSE predict(r.req)

\* GET /predict/{bhk}, lines 111-125: PredictRequest(...) is built inside the
\* handler, outside any try; what it raises is no RequestValidationError and
\* no HTTPException, so the server answers 500
predict_via_query(bhk, query) ==
    LET r == PredictRequest(
                [bath |-> QueryValue(query, "bath", DefaultBath),
                 balcony |-> QueryValue(query, "balcony", DefaultBalcony),
                 total_sqft_int |-> QueryValue(query, "total_sqft_int", DefaultSqft * Resolution),
                 bhk |-> bhk,
                 price_per_sqft |-> QueryValue(query, "price_per_sqft", DefaultPps * Resolution)])
    IN  IF ParamErrors(bhk, query) # {}
        THEN Reply(422, [detail |-> ParamErrors(bhk, query)], FALSE, 0, <<>>)
        ELSE IF r.raised
        THEN Reply(500, [detail |-> "Internal Server Error"], FALSE, 0, <<>>)
        ELSE predict(r.req)

(***************************************************************************)
(* The client, src/frontend/app_ui.py.                                     *)
(***************************************************************************)
Issue(cond, msg) == IF cond THEN <<msg>> ELSE <<>>

\* mutant: the area rule written with <= instead of <
validate_inputs_strict(bhk, bath, balcony, sqft, pps) ==
    Issue(bhk < 1 \/ bhk > 12, "BHK must be between 1 and 12.")
    \o Issue(bath < 1 \/ bath > 12, "Bathrooms must be between 1 and 12.")
    \o Issue(balcony < 0 \/ balcony > 6, "Balconies must be between 0 and 6.")
    \o Issue(sqft <= 200 * Resolution, "Total sqft must be > 200.")
    \o Issue(pps <= 0, "Price per sqft must be > 0.")
    \o Issue(bhk >= 1 /\ sqft <= 350 * bhk * Resolution, "Sqft per BHK should be >= 350 (data cleaning rule).")
    \o Issue(bath > bhk + 2, "Bathrooms should typically be <= (BHK + 2).")

validate_inputs(bhk, bath, balcony, sqft, pps) ==
    Issue(bhk < 1 \/ bhk > 12, "BHK must be between 1 and 12.")
    \o Issue(bath < 1 \/ bath > 12, "Bathrooms must be between 1 and 12.")
    \o Issue(balcony < 0 \/ balcony > 6, "Balconies must be between 0 and 6.")
    \o Issue(sqft <= 200 * Resolution, "Total sqft must be > 200.")
    \o Issue(pps <= 0, "Price per sqft must be > 0.")
    \o Issue(bhk >= 1 /\ QuotientBelow(sqft, bhk, 350), "Sqft per BHK should be >= 350 (data cleaning rule).")
    \o Issue(bath > bhk + 2, "Bathrooms should typically be <= (BHK + 2).")

\* the JSON payload of predict_post
post_payload(f) ==
    [bath |-> f.bath, balcony |-> f.balcony, total_sqft_int |-> f.sqft,
     bhk |-> f.bhk, price_per_sqft |-> f.pps]

\* the query parameters of predict_get, without the names in omit
get_params(f, omit) ==
    [n \in QueryNames \ omit |->
        CASE n = "bath" -> f.bath
          [] n = "balcony" -> f.balcony
          [] n = "total_sqft_int" -> f.sqft
          [] n = "price_per_sqft" -> f.pps]

(***************************************************************************)
(* The field values callers try.                                           *)
(***************************************************************************)
MidBhk == 2

BhkInputs == {MinBhk - 1, MinBhk, MidBhk, MaxBhk, MaxBhk + 1}
BathInputs == {MinBath - 1, MinBath, DefaultBath, MidBhk + BathSlack,
               MidBhk + BathSlack + 1, MaxBath, MaxBath + 1}
BalconyInputs == {MinBalcony - 1, MinBalcony, DefaultBalcony, MaxBalcony, MaxBalcony + 1}
SqftInputs == {MinSqftExcl * Resolution, MinSqftExcl * Resolution + 1,
               MinSqftPerBhk * MidBhk * Resolution - 1, MinSqftPerBhk * MidBhk * Resolution,
               DefaultSqft * Resolution, MinSqftPerBhk * MaxBhk * Resolution}
PpsInputs == {MinPpsExcl * Resolution, MinPpsExcl * Resolution + 1, DefaultPps * Resolution}

Forms == [bhk : BhkInputs, bath : BathInputs, balcony : BalconyInputs,
          sqft : SqftInputs, pps : PpsInputs]

\* the widgets' initial values, lines 105-110
InitialForm == [bhk |-> 2, bath |-> 2, balcony |-> 1,
                sqft |-> 1000 * Resolution, pps |-> 6000 * Resolution]

\* the query parameters a caller may leave out without changing the request
Omittable(f) ==
    {n \in QueryNames :
        \/ n = "bath" /\ f.bath = DefaultBath
        \/ n = "balcony" /\ f.balcony = DefaultBalcony
        \/ n = "total_sqft_int" /\ f.sqft = DefaultSqft * Resolution
        \/ n = "price_per_sqft" /\ f.pps = DefaultPps * Resolution}

(***************************************************************************)
(* The state machine.                                                      *)
(***************************************************************************)
Init ==
    /\ artifact \in Artifacts
    /\ phase = "importing"
    /\ MODEL = Unloaded
    /\ FEATURE_ORDER = <<>>
    /\ form = InitialForm
    /\ issues = validate_inputs(InitialForm.bhk, InitialForm.bath, InitialForm.balcony,
                                InitialForm.sqft, InitialForm.pps)
    /\ postResp = NoResp
    /\ getResp = NoResp
    /\ metaResp = NoResp

\* mutant: a missing or unusable artifact leaves the service up without a model
StartupDegraded ==
    /\ phase = "importing"
    /\ IF artifact.file # "pickle"
       THEN phase' = "serving" /\ UNCHANGED <<MODEL, FEATURE_ORDER>>
       ELSE IF "model" \notin DOMAIN artifact.payload
       THEN phase' = "serving" /\ UNCHANGED <<MODEL, FEATURE_ORDER>>
       ELSE /\ phase' = "serving"
            /\ MODEL' = artifact.payload.model
            /\ FEATURE_ORDER' = IF "feature_order" \in DOMAIN artifact.payload
                                THEN artifact.payload.feature_order
                                ELSE BuiltinOrder
    /\ UNCHANGED <<artifact, form, issues, postResp, getResp, metaResp>>

\* module import, lines 30-38
Startup ==
    /\ phase = "importing"
    /\ IF artifact.file = "absent"
       THEN phase' = "failed" /\ UNCHANGED <<MODEL, FEATURE_ORDER>>
       ELSE IF artifact.file = "corrupt"
       THEN phase' = "failed" /\ UNCHANGED <<MODEL, FEATURE_ORDER>>
       ELSE IF "model" \notin DOMAIN artifact.payload
       THEN phase' = "failed" /\ UNCHANGED <<MODEL, FEATURE_ORDER>>
       ELSE /\ phase' = "serving"
            /\ MODEL' = artifact.payload.model
            /\ FEATURE_ORDER' = IF "feature_order" \in DOMAIN artifact.payload
                                THEN artifact.payload.feature_order
                                ELSE BuiltinOrder
    /\ UNCHANGED <<artifact, form, issues, postResp, getResp, metaResp>>

\* mutant: the handler reverses the shared list in place before returning it
root_reversing ==
    /\ phase = "serving"
    /\ FEATURE_ORDER' = [i \in 1..Len(FEATURE_ORDER) |->
                            FEATURE_ORDER[Len(FEATURE_ORDER) + 1 - i]]
    /\ metaResp' = [status |-> 200, endpoint |-> "/",
                    body |-> [status |-> "ok", model_features |-> FEATURE_ORDER']]
    /\ UNCHANGED <<artifact, phase, MODEL, form, issues, postResp, getResp>>

\* GET /
root ==
    /\ phase = "serving"
    /\ metaResp' = [status |-> 200, endpoint |-> "/",
                    body |-> [status |-> "ok", model_features |-> FEATURE_ORDER]]
    /\ UNCHANGED <<server, form, issues, postResp, getResp>>

\* GET /model/info
model_info ==
    /\ phase = "serving"
    /\ metaResp' = [status |-> 200, endpoint |-> "/model/info",
                    body |-> [feature_order |-> FEATURE_ORDER, model_type |-> MODEL.type]]
    /\ UNCHANGED <<server, form, issues, postResp, getResp>>

Sent(via, request, reply) == [via |-> via, request |-> request] @@ reply

\* any HTTP client: POST /predict with the form's values as the body
PostPredict ==
    /\ phase = "serving"
    /\ postResp = NoResp
    /\ postResp' = Sent("direct", post_payload(form), post_predict(post_payload(form)))
    /\ UNCHANGED <<server, form, issues, getResp, metaResp>>

\* any HTTP client: GET /predict/{bhk}, leaving out some parameters that
\* have their default value
GetPredict ==
    /\ phase = "serving"
    /\ getResp = NoResp
    /\ \E omit \in SUBSET Omittable(form) :
          getResp' = Sent("direct", [bhk |-> form.bhk, query |-> get_params(form, omit)],
                          predict_via_query(form.bhk, get_params(form, omit)))
    /\ UNCHANGED <<server, form, issues, postResp, metaResp>>

\* the user edits the widgets of a fresh page; the script reruns and
\* recomputes issues (line 115)
EnterDetails ==
    /\ form = InitialForm
    /\ postResp = NoResp
    /\ getResp = NoResp
    /\ \E f \in Forms :
          /\ form' = f
          /\ issues' = validate_inputs(f.bhk, f.bath, f.balcony, f.sqft, f.pps)
    /\ UNCHANGED <<server, postResp, getResp, metaResp>>

\* button "Predict (POST)", lines 125-129: st.stop() when there are issues
ClickPost ==
    /\ phase = "serving"
    /\ postResp = NoResp
    /\ issues = <<>>
    /\ postResp' = Sent("ui", post_payload(form), post_predict(post_payload(form)))
    /\ UNCHANGED <<server, form, issues, getResp, metaResp>>

\* button "Predict (GET)", lines 145-149
ClickGet ==
    /\ phase = "serving"
    /\ getResp = NoResp
    /\ issues = <<>>
    /\ getResp' = Sent("ui", [bhk |-> form.bhk, query |-> get_params(form, {})],
                       predict_via_query(form.bhk, get_params(form, {})))
    /\ UNCHANGED <<server, form, issues, postResp, metaResp>>

\* the page is loaded anew: the widgets are back at their initial values
Reload ==
    /\ form # InitialForm \/ postResp # NoResp \/ getResp # NoResp
    /\ form' = InitialForm
    /\ issues' = validate_inputs(InitialForm.bhk, InitialForm.bath, InitialForm.balcony,
                                 InitialForm.sqft, InitialForm.pps)
    /\ postResp' = NoResp
    /\ getResp' = NoResp
    /\ UNCHANGED <<server, metaResp>>

Next ==
    \/ Startup
    \/ root
    \/ model_info
    \/ PostPredict
    \/ GetPredict
    \/ EnterDetails
    \/ ClickPost
    \/ ClickGet
    \/ Reload

Spec == Init /\ [][Next]_vars

(***************************************************************************)
(* The properties.  They speak of the logical tuple in form, for which     *)
(* postResp and getResp are the answers of the two entry points.           *)
(***************************************************************************)
InRange ==
    /\ form.bhk >= 1 /\ form.bhk <= 12
    /\ form.bath >= 1 /\ form.bath <= 12
    /\ form.balcony >= 0 /\ form.balcony <= 6
    /\ form.sqft > 200 * Resolution
    /\ form.pps > 0

CrossRules ==
    /\ form.bath <= form.bhk + 2
    /\ form.sqft >= 350 * form.bhk * Resolution

Admissible == InRange /\ CrossRules

PredictResponses == {r \in {postResp, getResp} : r.status # 0}

\* the value of the form's field called n, as a float
FormValue(n) ==
    CASE n = "bath" -> form.bath * Resolution
      [] n = "balcony" -> form.balcony * Resolution
      [] n = "bhk" -> form.bhk * Resolution
      [] n = "total_sqft_int" -> form.sqft
      [] n = "price_per_sqft" -> form.pps

OrderOverFields == \A i \in 1..Len(FEATURE_ORDER) : FEATURE_ORDER[i] \in FieldNames

ArtifactUnusable ==
    \/ artifact.file = "absent"
    \/ artifact.file = "corrupt"
    \/ artifact.file = "pickle" /\ "model" \notin DOMAIN artifact.payload

\* C1: an input that violates a field range or a cross-field rule is answered
\* by both entry points with a 4xx status, and MODEL.predict is not invoked.
C1_InvalidIsClientError ==
    ~Admissible =>
        \A r \in PredictResponses : r.status >= 400 /\ r.status <= 499 /\ r.calls = 0

\* C2: for an admissible tuple POST /predict and GET /predict/{bhk} (omitted
\* query parameters standing for their defaults) give the same status and the
\* same predicted_price_lakhs, feature_order and features_used.
C2_EntryPointsAgree ==
    (Admissible /\ postResp.status # 0 /\ getResp.status # 0) =>
        /\ postResp.status = getResp.status
        /\ postResp.status = 200 =>
              /\ postResp.body.predicted_price_lakhs = getResp.body.predicted_price_lakhs
              /\ postResp.body.feature_order = getResp.body.feature_order
              /\ postResp.body.features_used = getResp.body.features_used

C2_Witness ==
    /\ Admissible
    /\ postResp.status = 200
    /\ getResp.status = 200
    /\ DOMAIN getResp.request.query # QueryNames
    /\ FEATURE_ORDER # BuiltinOrder

\* C3: an admissible input is accepted, and for a FEATURE_ORDER over the five
\* field names the vector handed to MODEL.predict (the features_used of the
\* response) has len(FEATURE_ORDER) entries, entry i being the value of the
\* field FEATURE_ORDER[i].
C3_VectorFollowsOrder ==
    Admissible =>
        \A r \in PredictResponses :
            /\ r.validated
            /\ OrderOverFields =>
                  /\ r.calls = 1
                  /\ Len(r.vector) = Len(FEATURE_ORDER)
                  /\ \A i \in 1..Len(FEATURE_ORDER) : r.vector[i] = FormValue(FEATURE_ORDER[i])
                  /\ r.status = 200 => r.body.features_used = r.vector

C3_Witness ==
    /\ Admissible
    /\ OrderOverFields
    /\ FEATURE_ORDER # BuiltinOrder
    /\ form.bath # form.bhk
    /\ postResp.status = 200
    /\ getResp.status = 200

\* C4: with every field in range, an input exactly at total_sqft_int = 350 * bhk
\* or exactly at bath = bhk + 2 is accepted (the other rule holding), and an
\* input below 350 * bhk or with bath >= bhk + 3 is rejected.
C4_BoundariesInclusive ==
    InRange =>
        \A r \in PredictResponses :
            /\ (form.sqft = 350 * form.bhk * Resolution /\ form.bath <= form.bhk + 2) => r.validated
            /\ (form.bath = form.bhk + 2 /\ form.sqft >= 350 * form.bhk * Resolution) => r.validated
            /\ form.sqft < 350 * form.bhk * Resolution => (~r.validated /\ r.status # 200)
            /\ form.bath >= form.bhk + 3 => (~r.validated /\ r.status # 200)

C4_Witness ==
    /\ InRange
    /\ form.sqft = 350 * form.bhk * Resolution
    /\ form.bath = form.bhk + 2
    /\ postResp.status # 0 /\ postResp.validated
    /\ getResp.status # 0 /\ getResp.validated

\* C5: with the artifact absent, not deserializable or without a predictor
\* entry the process never serves: no endpoint ever answers a request.
C5_NoServiceWithoutArtifact ==
    ArtifactUnusable =>
        /\ phase \in {"importing", "failed"}
        /\ postResp.status = 0
        /\ getResp.status = 0
        /\ metaResp.status = 0

C5_Witness ==
    /\ artifact.file = "pickle"
    /\ "model" \notin DOMAIN artifact.payload
    /\ phase = "failed"
    /\ form # InitialForm

\* C6: a serving process uses the column list stored in the artifact, never a
\* built-in order the artifact did not declare.
C6_OrderFromArtifact ==
    phase = "serving" =>
        /\ "feature_order" \in DOMAIN artifact.payload
        /\ FEATURE_ORDER = artifact.payload.feature_order

\* C7: when MODEL.predict raises for a validated request, the answer is 400
\* with a detail message after exactly one invocation, the process keeps
\* serving, and the server's state is as before the request.
C7_PredictorFailureIs400 ==
    /\ [](\A r \in PredictResponses :
            (r.calls >= 1 /\ Len(r.vector) # MODEL.n_features) =>
                /\ r.status = 400
                /\ r.body.detail # ""
                /\ r.calls = 1
                /\ phase = "serving")
    /\ [][(\E r \in {postResp', getResp'} :
              r.status # 0 /\ r.calls >= 1 /\ Len(r.vector) # MODEL.n_features)
          => (phase' = "serving" /\ MODEL' = MODEL /\ FEATURE_ORDER' = FEATURE_ORDER)]_vars

C7_Witness ==
    /\ postResp.status = 400 /\ postResp.calls = 1
    /\ getResp.status = 400 /\ getResp.calls = 1
    /\ metaResp.status = 200
    /\ phase = "serving"

\* C8: with a name in FEATURE_ORDER that is no request field, every predict
\* request ends in an error response: nothing is handed to MODEL.predict and
\* no 200 is produced.
C8_UnknownNameFailsLoudly ==
    ~OrderOverFields =>
        \A r \in PredictResponses :
            /\ r.status >= 400
            /\ r.calls = 0
            /\ r.vector = <<>>

C8_Witness ==
    /\ ~OrderOverFields
    /\ Admissible
    /\ postResp.status = 400
    /\ getResp.status = 400

\* C9: once serving, no request changes MODEL or FEATURE_ORDER; every
\* feature_order / model_features returned is that FEATURE_ORDER, and an
\* answer given earlier is the answer the same request gets now.
C9_ReadOnlyAfterStartup ==
    /\ [][phase = "serving" =>
            (phase' = "serving" /\ MODEL' = MODEL /\ FEATURE_ORDER' = FEATURE_ORDER)]_vars
    /\ [](/\ \A r \in PredictResponses : r.status = 200 => r.body.feature_order = FEATURE_ORDER
          /\ (metaResp.status = 200 /\ metaResp.endpoint = "/")
                => metaResp.body.model_features = FEATURE_ORDER
          /\ (metaResp.status = 200 /\ metaResp.endpoint = "/model/info")
                => metaResp.body.feature_order = FEATURE_ORDER
          /\ postResp.status # 0 => postResp.body = post_predict(postResp.request).body
          /\ getResp.status # 0 =>
                getResp.body = predict_via_query(getResp.request.bhk, getResp.request.query).body)

C9_Witness ==
    /\ phase = "serving"
    /\ metaResp.status = 200
    /\ postResp.status = 200
    /\ getResp.status = 200
    /\ form # InitialForm

\* C10: validate_inputs returns no issue exactly when the server's validation
\* accepts the same values; a request the client sends is never rejected on
\* validation.
C10_ClientAgreesWithServer ==
    \A r \in PredictResponses :
        /\ (issues = <<>>) <=> r.validated
        /\ r.via = "ui" => r.validated

C10_Witness ==
    /\ form # InitialForm
    /\ issues = <<>>
    /\ postResp.status # 0 /\ postResp.via = "ui" /\ postResp.validated
    /\ getResp.status # 0 /\ getResp.via = "ui" /\ getResp.validated

====
